---- MODULE Spec2Model ----
(***************************************************************************)
(* Model of the generator based cooperative scheduler                      *)
(* src/device/flash/lib/scheduler.py (Task, RestartingTask, Scheduler).    *)
(*                                                                         *)
(* A task's generator is an input of the program.  One step of it is       *)
(* modelled as the calls it makes on the scheduler while it runs (run,     *)
(* stop, restart, clear, set_flag), followed by the way the step ends      *)
(* (yield of a mask, StopIteration, ExitScheduler, another exception).     *)
(* Scheduler.loop is cut where control leaves it: before a pass, before    *)
(* each iterator.__next__(), when __next__ returns or raises, before       *)
(* task._abort_on_error, and in sleep.                                     *)
(***************************************************************************)
EXTENDS Integers, Sequences, FiniteSets

\* ------------------------------------------------------------------ bounds
NTasks == 2        \* task objects that can be created
FlagWidth == 2     \* bits of the wait masks and of the pending flags
MaxStep == 1       \* the step counter of an iterator saturates here
MaxOps == 1        \* scheduler calls made by one step of a generator

Tasks == 1..NTasks

RECURSIVE Pow2(_)
Pow2(n) == IF n = 0 THEN 1 ELSE 2 * Pow2(n - 1)

Masks == 0..(Pow2(FlagWidth) - 1)

\* generator functions handed to run(): "free" ends each step in any way and
\* may call the scheduler, "fail" raises in every step, "spin" yields 0 in
\* every step
Generators == {"free", "fail", "spin"}

\* the (cls, generator) pairs run() is called with
Kinds == {<<"Task", "free">>, <<"RestartingTask", "free">>,
          <<"RestartingTask", "fail">>, <<"Task", "spin">>}

VARIABLES
    running,       \* Scheduler.running: list of tasks
    waiting,       \* Scheduler.waiting: list of tasks
    flags,         \* Scheduler.flags
    flag_counter,  \* Scheduler.flag_counter
    last_flag,     \* value returned by the last new_flag() call (0: none yet)
    cls,           \* class of each task object ("none": not created)
    generator,     \* Task.generator
    iterator,      \* Task.iterator: steps taken by the current instance
    mask,          \* Task.mask
    pc,            \* position of the program in and around Scheduler.loop
    snap,          \* list(self.running) of line 96
    idx,           \* tasks of snap the for loop has taken
    woken,         \* history: tasks the flag-merge step just made has moved
    cur,           \* task of the for loop of line 96 (0: none)
    result,        \* how iterator.__next__() of line 98 ended
    call,          \* the scheduler call made last by the code now running
    nops,          \* scheduler calls made by the running step so far
    reported,      \* tasks whose handle_exception ran in this pass, in order
    terminated,    \* history: the task completed, was stopped or failed and
                   \* has not been started again since
    first,         \* history: "pending" from run() to the first resume of
                   \* the task, "done" from then on, "none" when the task
                   \* was removed before its first resume (or does not exist)
    fresh,         \* history of the running pass: "early" when restart() put
                   \* the task back into running before its turn in the copy,
                   \* "added" when run() or another restart put it there
                   \* after the copy was made, "no" otherwise
    stopped        \* history: stop() has returned for the task and the task
                   \* has not been restarted since

vars == <<running, waiting, flags, flag_counter, last_flag, cls, generator,
          iterator, mask, pc, snap, idx, woken, cur, result, call, nops, reported,
          terminated, first, fresh, stopped>>

tvars == <<cls, generator>>
fvars == <<flag_counter, last_flag>>
loopvars == <<pc, snap, idx, woken, cur, result>>

NoResult == [kind |-> "none", mask |-> 0]
NoCall == [op |-> "none", arg |-> 0]

\* ----------------------------------------------------------------- helpers
\* a & b
RECURSIVE BitAnd(_, _)
BitAnd(a, b) ==
    IF a = 0 \/ b = 0 THEN 0
    ELSE (a % 2) * (b % 2) + 2 * BitAnd(a \div 2, b \div 2)

\* a | b
RECURSIVE BitOr(_, _)
BitOr(a, b) ==
    IF a = 0 THEN b
    ELSE IF b = 0 THEN a
    ELSE (IF a % 2 = 1 \/ b % 2 = 1 THEN 1 ELSE 0) + 2 * BitOr(a \div 2, b \div 2)

Range(s) == {s[i] : i \in 1..Len(s)}
Count(s, t) == Cardinality({i \in 1..Len(s) : s[i] = t})
Min(a, b) == IF a < b THEN a ELSE b
Without(s, t) == SelectSeq(s, LAMBDA x : x # t)

\* list.remove(x): drops the first occurrence of x
RECURSIVE ListRemove(_, _)
ListRemove(s, t) ==
    IF s = <<>> THEN <<>>
    ELSE IF Head(s) = t THEN Tail(s)
    ELSE <<Head(s)>> \o ListRemove(Tail(s), t)

\* Scheduler.remove(task) on one list: list.remove, ValueError swallowed
remove(s, t) == ListRemove(s, t)

\* mutant: a restart that keeps the old generator instance
generator_keep(t) == iterator[t]

\* self.generator(): a new generator instance, no step taken
generator_call(t) == 0

\* mutant: restart without the remove of line 30
restart_running_noremove(t) == Append(running, t)

\* Task.restart on the two lists: remove from both, append to running
restart_running(t) == Append(remove(running, t), t)
restart_waiting(t) == remove(waiting, t)

\* mutant: wakes a task only when its mask equals the pending flags
merge_equal(snp, f, run, wait) ==
    LET hit == SelectSeq(snp, LAMBDA t : mask[t] = f) IN
    <<run \o hit, SelectSeq(wait, LAMBDA t : mask[t] # f)>>

\* mutant: line 92 inserts the woken tasks at the head of running
merge_front(snp, f, run, wait) ==
    <<SelectSeq(snp, LAMBDA t : BitAnd(f, mask[t]) # 0) \o run,
      SelectSeq(wait, LAMBDA t : BitAnd(f, mask[t]) = 0)>>

\* mutant: line 93 missing, a woken task stays in waiting
merge_keep(snp, f, run, wait) ==
    <<run \o SelectSeq(snp, LAMBDA t : BitAnd(f, mask[t]) # 0), wait>>

\* lines 90-93: walk a copy of waiting, move the tasks whose mask meets flags
RECURSIVE merge(_, _, _, _)
merge(snp, f, run, wait) ==
    IF snp = <<>> THEN <<run, wait>>
    ELSE LET t == Head(snp) IN
         IF BitAnd(f, mask[t]) # 0
         THEN merge(Tail(snp), f, Append(run, t), ListRemove(wait, t))
         ELSE merge(Tail(snp), f, run, wait)

\* mutant: every yield parks the task
parks_always(m) == TRUE

\* line 108: if mask
parks(m) == m # 0

Created == {t \in Tasks : cls[t] # "none"}
InStepCall == pc = "instep" /\ generator[cur] = "free" /\ nops < MaxOps
MayCall == pc = "setup" \/ InStepCall
Called(op, arg) ==
    /\ call' = [op |-> op, arg |-> arg]
    /\ nops' = IF pc = "instep" THEN nops + 1 ELSE nops

\* -------------------------------------------------------------------- Init
Init ==
    /\ running = <<>>
    /\ waiting = <<>>
    /\ flags = 0
    /\ flag_counter = 0
    /\ last_flag = 0
    /\ cls = [t \in Tasks |-> "none"]
    /\ generator = [t \in Tasks |-> "free"]
    /\ iterator = [t \in Tasks |-> 0]
    /\ mask = [t \in Tasks |-> 0]
    /\ pc = "setup"
    /\ snap = <<>>
    /\ idx = 0
    /\ woken = <<>>
    /\ cur = 0
    /\ result = NoResult
    /\ call = NoCall
    /\ nops = 0
    /\ reported = <<>>
    /\ terminated = [t \in Tasks |-> FALSE]
    /\ first = [t \in Tasks |-> "none"]
    /\ fresh = [t \in Tasks |-> "no"]
    /\ stopped = [t \in Tasks |-> FALSE]

\* ------------------------------------------------ operations of the program
\* Scheduler.run(generator, cls): a new task object, appended to running
run(c, g) ==
    /\ MayCall
    /\ Created # Tasks
    /\ LET t == CHOOSE x \in Tasks \ Created : \A y \in Tasks \ Created : x <= y IN
       /\ cls' = [cls EXCEPT ![t] = c]
       /\ generator' = [generator EXCEPT ![t] = g]
       /\ iterator' = [iterator EXCEPT ![t] = 0]
       /\ mask' = [mask EXCEPT ![t] = 0]
       /\ running' = Append(running, t)
       /\ terminated' = [terminated EXCEPT ![t] = FALSE]
       /\ first' = [first EXCEPT ![t] = "pending"]
       /\ fresh' = IF pc = "instep" THEN [fresh EXCEPT ![t] = "added"] ELSE fresh
       /\ Called("run", t)
    /\ stopped' = stopped
    /\ UNCHANGED <<waiting, flags, fvars, loopvars, reported>>

\* mutant: stop that takes the task out of running only
stop_running_only(t) ==
    /\ MayCall
    /\ t \in Created
    /\ running' = remove(running, t)
    /\ terminated' = [terminated EXCEPT ![t] = TRUE]
    /\ Called("stop", t)
    /\ UNCHANGED <<waiting, flags, fvars, tvars, iterator, mask, loopvars, reported>>
    /\ first' = [first EXCEPT ![t] = IF @ = "pending" THEN "none" ELSE @]
    /\ UNCHANGED fresh
    /\ stopped' = [stopped EXCEPT ![t] = TRUE]

\* Task.stop
stop(t) ==
    /\ MayCall
    /\ t \in Created
    /\ running' = remove(running, t)
    /\ waiting' = remove(waiting, t)
    /\ terminated' = [terminated EXCEPT ![t] = TRUE]
    /\ Called("stop", t)
    /\ UNCHANGED <<flags, fvars, tvars, iterator, mask, loopvars, reported>>
    /\ first' = [first EXCEPT ![t] = IF @ = "pending" THEN "none" ELSE @]
    /\ UNCHANGED fresh
    /\ stopped' = [stopped EXCEPT ![t] = TRUE]

\* Task.restart
restart(t) ==
    /\ MayCall
    /\ t \in Created
    /\ running' = restart_running(t)
    /\ waiting' = restart_waiting(t)
    /\ iterator' = [iterator EXCEPT ![t] = generator_call(t)]
    /\ terminated' = [terminated EXCEPT ![t] = FALSE]
    /\ Called("restart", t)
    /\ UNCHANGED <<flags, fvars, tvars, mask, loopvars, reported>>
    /\ UNCHANGED first
    /\ stopped' = [stopped EXCEPT ![t] = FALSE]
    /\ fresh' = IF pc = "instep"
                THEN [fresh EXCEPT ![t] = IF \E i \in (idx + 1)..Len(snap) : snap[i] = t
                                          THEN "early" ELSE "added"]
                ELSE fresh

\* Scheduler.clear
clear ==
    /\ InStepCall
    /\ running' = <<>>
    /\ waiting' = <<>>
    /\ terminated' = [t \in Tasks |-> t \in Created]
    /\ Called("clear", 0)
    /\ UNCHANGED <<flags, fvars, tvars, iterator, mask, loopvars, reported>>
    /\ first' = [t \in Tasks |-> IF first[t] = "pending" THEN "none" ELSE first[t]]
    /\ UNCHANGED <<fresh, stopped>>

\* Scheduler.set_flag: called by set-up code, by a task's step, or by a
\* producer that interrupts sleep
set_flag(f) ==
    /\ pc \in {"setup", "sleep"} \/ InStepCall
    /\ flags' = BitOr(flags, f)
    /\ Called("set_flag", f)
    /\ UNCHANGED <<running, waiting, fvars, tvars, iterator, mask, loopvars,
                   reported, terminated>>
    /\ UNCHANGED <<first, fresh, stopped>>

\* mutant: the counter is advanced before the shift of line 63
new_flag_late_shift ==
    /\ pc = "setup"
    /\ flag_counter <= FlagWidth
    /\ last_flag' = Pow2(flag_counter + 1)
    /\ flag_counter' = flag_counter + 1
    /\ Called("new_flag", 0)
    /\ UNCHANGED <<running, waiting, flags, tvars, iterator, mask, loopvars,
                   reported, terminated>>
    /\ UNCHANGED <<first, fresh, stopped>>

\* Scheduler.new_flag: Python integers do not overflow and nothing is checked
new_flag ==
    /\ pc = "setup"
    /\ flag_counter <= FlagWidth
    /\ last_flag' = Pow2(flag_counter)
    /\ flag_counter' = flag_counter + 1
    /\ Called("new_flag", 0)
    /\ UNCHANGED <<running, waiting, flags, tvars, iterator, mask, loopvars,
                   reported, terminated>>
    /\ UNCHANGED <<first, fresh, stopped>>

\* the caller enters Scheduler.loop
loop ==
    /\ pc = "setup"
    /\ pc' = "top"
    /\ call' = NoCall
    /\ UNCHANGED <<running, waiting, flags, fvars, tvars, iterator, mask, snap,
                   idx, woken, cur, result, nops, reported, terminated>>
    /\ UNCHANGED <<first, fresh, stopped>>

\* mutant: line 94 missing, the pending flags are kept
loop_top_keepflags ==
    /\ pc = "top"
    /\ LET m == IF flags # 0 THEN merge(waiting, flags, running, waiting)
                ELSE <<running, waiting>> IN
       /\ running' = m[1]
       /\ waiting' = m[2]
       /\ flags' = flags
       /\ snap' = m[1]
       /\ woken' = SubSeq(m[1], Len(running) + 1, Len(m[1]))
       /\ pc' = IF m[1] # <<>> THEN "resume" ELSE "sleep"
    /\ idx' = 0
    /\ reported' = <<>>
    /\ UNCHANGED <<fvars, tvars, iterator, mask, cur, result, call, nops, terminated>>
    /\ UNCHANGED <<first, stopped>>
    /\ fresh' = [t \in Tasks |-> "no"]

\* mutant: the for loop of line 96 walks the list twice
loop_top_twice ==
    /\ pc = "top"
    /\ LET m == IF flags # 0 THEN merge(waiting, flags, running, waiting)
                ELSE <<running, waiting>> IN
       /\ running' = m[1]
       /\ waiting' = m[2]
       /\ flags' = 0
       /\ snap' = m[1] \o m[1]
       /\ woken' = SubSeq(m[1], Len(running) + 1, Len(m[1]))
       /\ pc' = IF m[1] # <<>> THEN "resume" ELSE "sleep"
    /\ idx' = 0
    /\ reported' = <<>>
    /\ UNCHANGED <<fvars, tvars, iterator, mask, cur, result, call, nops, terminated>>
    /\ UNCHANGED <<first, stopped>>
    /\ fresh' = [t \in Tasks |-> "no"]

\* mutant: the else branch of line 112 missing, the loop never sleeps
loop_top_nosleep ==
    /\ pc = "top"
    /\ LET m == IF flags # 0 THEN merge(waiting, flags, running, waiting)
                ELSE <<running, waiting>> IN
       /\ running' = m[1]
       /\ waiting' = m[2]
       /\ flags' = 0
       /\ snap' = m[1]
       /\ woken' = SubSeq(m[1], Len(running) + 1, Len(m[1]))
       /\ pc' = IF m[1] # <<>> THEN "resume" ELSE "top"
    /\ idx' = 0
    /\ reported' = <<>>
    /\ UNCHANGED <<fvars, tvars, iterator, mask, cur, result, call, nops, terminated>>
    /\ UNCHANGED <<first, stopped>>
    /\ fresh' = [t \in Tasks |-> "no"]

\* lines 88-96 and 112: the flag-merge step, then the test of self.running
loop_top ==
    /\ pc = "top"
    /\ LET m == IF flags # 0 THEN merge(waiting, flags, running, waiting)
                ELSE <<running, waiting>> IN
       /\ running' = m[1]
       /\ waiting' = m[2]
       /\ flags' = 0
       /\ snap' = m[1]
       /\ woken' = SubSeq(m[1], Len(running) + 1, Len(m[1]))
       /\ pc' = IF m[1] # <<>> THEN "resume" ELSE "sleep"
    /\ idx' = 0
    /\ reported' = <<>>
    /\ UNCHANGED <<fvars, tvars, iterator, mask, cur, result, call, nops, terminated>>
    /\ UNCHANGED <<first, stopped>>
    /\ fresh' = [t \in Tasks |-> "no"]

\* lines 113, 122-125: the idle hook returns, the next pass begins
sleep ==
    /\ pc = "sleep"
    /\ pc' = "top"
    /\ call' = NoCall
    /\ UNCHANGED <<running, waiting, flags, fvars, tvars, iterator, mask, snap,
                   idx, woken, cur, result, nops, reported, terminated>>
    /\ UNCHANGED <<first, fresh, stopped>>

\* lines 96-98: the next task of the copy, its iterator is advanced
resume ==
    /\ pc = "resume"
    /\ idx < Len(snap)
    /\ idx' = idx + 1
    /\ cur' = snap[idx + 1]
    /\ iterator' = [iterator EXCEPT ![snap[idx + 1]] = Min(@ + 1, MaxStep)]
    /\ nops' = 0
    /\ call' = NoCall
    /\ woken' = <<>>
    /\ pc' = "instep"
    /\ UNCHANGED <<running, waiting, flags, fvars, tvars, mask, snap, result,
                   reported, terminated>>
    /\ first' = [first EXCEPT ![snap[idx + 1]] = "done"]
    /\ UNCHANGED <<fresh, stopped>>

\* line 98: __next__ returns a mask or raises, as the generator decides
step_end(k, m) ==
    /\ pc = "instep"
    /\ generator[cur] = "fail" => k = "Exception"
    /\ generator[cur] = "spin" => k = "yield" /\ m = 0
    /\ k # "yield" => m = 0
    /\ result' = [kind |-> k, mask |-> m]
    /\ call' = NoCall
    /\ pc' = "handle"
    /\ UNCHANGED <<running, waiting, flags, fvars, tvars, iterator, mask, snap,
                   idx, woken, cur, nops, reported, terminated>>
    /\ UNCHANGED <<first, fresh, stopped>>

\* mutant: the for loop of line 96 left after its first task
AfterTask_break == "top"

\* where the for loop of line 96 goes once a task is dealt with
AfterTask == IF idx = Len(snap) THEN "top" ELSE "resume"

\* mutant: line 111 missing, the mask of a parked task is not recorded
handle_yield_nomask ==
    /\ pc = "handle"
    /\ result.kind = "yield"
    /\ IF ~parks(result.mask)
       THEN /\ pc' = AfterTask
            /\ cur' = 0
            /\ result' = NoResult
            /\ UNCHANGED <<running, waiting, mask>>
       ELSE IF Count(running, cur) = 0
       THEN \* line 109: list.remove raises ValueError, which leaves loop()
            /\ pc' = "crashed"
            /\ UNCHANGED <<running, waiting, mask, cur, result>>
       ELSE /\ running' = ListRemove(running, cur)
            /\ waiting' = Append(waiting, cur)
            /\ mask' = mask
            /\ pc' = AfterTask
            /\ cur' = 0
            /\ result' = NoResult
    /\ UNCHANGED <<flags, fvars, tvars, iterator, snap, idx, woken, call, nops, reported,
                   terminated>>
    /\ UNCHANGED <<first, fresh, stopped>>

\* lines 107-111: the step yielded a mask
handle_yield ==
    /\ pc = "handle"
    /\ result.kind = "yield"
    /\ IF ~parks(result.mask)
       THEN /\ pc' = AfterTask
            /\ cur' = 0
            /\ result' = NoResult
            /\ UNCHANGED <<running, waiting, mask>>
       ELSE IF Count(running, cur) = 0
       THEN \* line 109: list.remove raises ValueError, which leaves loop()
            /\ pc' = "crashed"
            /\ UNCHANGED <<running, waiting, mask, cur, result>>
       ELSE /\ running' = ListRemove(running, cur)
            /\ waiting' = Append(waiting, cur)
            /\ mask' = [mask EXCEPT ![cur] = result.mask]
            /\ pc' = AfterTask
            /\ cur' = 0
            /\ result' = NoResult
    /\ UNCHANGED <<flags, fvars, tvars, iterator, snap, idx, woken, call, nops, reported,
                   terminated>>
    /\ UNCHANGED <<first, fresh, stopped>>

\* lines 99-100: StopIteration
handle_stop ==
    /\ pc = "handle"
    /\ result.kind = "StopIteration"
    /\ running' = remove(running, cur)
    /\ waiting' = remove(waiting, cur)
    /\ terminated' = [terminated EXCEPT ![cur] = TRUE]
    /\ pc' = AfterTask
    /\ cur' = 0
    /\ result' = NoResult
    /\ UNCHANGED <<flags, fvars, tvars, iterator, mask, snap, idx, woken, call, nops,
                   reported>>
    /\ UNCHANGED <<first, fresh, stopped>>

\* mutant: ExitScheduler caught by the bare except of line 103
handle_exit_caught ==
    /\ pc = "handle"
    /\ result.kind = "ExitScheduler"
    /\ running' = remove(running, cur)
    /\ waiting' = remove(waiting, cur)
    /\ terminated' = [terminated EXCEPT ![cur] = TRUE]
    /\ pc' = "hook"
    /\ UNCHANGED <<flags, fvars, tvars, iterator, mask, snap, idx, woken, cur, result,
                   call, nops, reported>>
    /\ UNCHANGED <<first, fresh, stopped>>

\* lines 101-102: ExitScheduler is raised again and leaves loop()
handle_exit ==
    /\ pc = "handle"
    /\ result.kind = "ExitScheduler"
    /\ pc' = "exited"
    /\ UNCHANGED <<running, waiting, flags, fvars, tvars, iterator, mask, snap,
                   idx, woken, cur, result, call, nops, reported, terminated>>
    /\ UNCHANGED <<first, fresh, stopped>>

\* mutant: line 105 missing, the hook runs on a task still in its list
handle_error_noremove ==
    /\ pc = "handle"
    /\ result.kind = "Exception"
    /\ UNCHANGED <<running, waiting>>
    /\ terminated' = [terminated EXCEPT ![cur] = TRUE]
    /\ pc' = "hook"
    /\ UNCHANGED <<flags, fvars, tvars, iterator, mask, snap, idx, woken, cur, result,
                   call, nops, reported>>
    /\ UNCHANGED <<first, fresh, stopped>>

\* lines 103-105: any other exception, the task is removed
handle_error ==
    /\ pc = "handle"
    /\ result.kind = "Exception"
    /\ running' = remove(running, cur)
    /\ waiting' = remove(waiting, cur)
    /\ terminated' = [terminated EXCEPT ![cur] = TRUE]
    /\ pc' = "hook"
    /\ UNCHANGED <<flags, fvars, tvars, iterator, mask, snap, idx, woken, cur, result,
                   call, nops, reported>>
    /\ UNCHANGED <<first, fresh, stopped>>

\* mutant: RestartingTask._abort_on_error without handle_exception
_abort_on_error_silent ==
    /\ pc = "hook"
    /\ reported' = IF cls[cur] = "RestartingTask" THEN reported
                   ELSE Append(reported, cur)
    /\ IF cls[cur] = "RestartingTask"
       THEN /\ running' = restart_running(cur)
            /\ waiting' = restart_waiting(cur)
            /\ iterator' = [iterator EXCEPT ![cur] = generator_call(cur)]
            /\ terminated' = [terminated EXCEPT ![cur] = FALSE]
       ELSE UNCHANGED <<running, waiting, iterator, terminated>>
    /\ pc' = AfterTask
    /\ cur' = 0
    /\ result' = NoResult
    /\ UNCHANGED <<flags, fvars, tvars, mask, snap, idx, woken, call, nops>>
    /\ UNCHANGED first
    /\ fresh' = IF cls[cur] = "RestartingTask"
                THEN [fresh EXCEPT ![cur] = "added"] ELSE fresh
    /\ stopped' = IF cls[cur] = "RestartingTask"
                  THEN [stopped EXCEPT ![cur] = FALSE] ELSE stopped

\* line 106: task._abort_on_error, lines 35-36 (Task), 46-48 (RestartingTask)
_abort_on_error ==
    /\ pc = "hook"
    /\ reported' = Append(reported, cur)
    /\ IF cls[cur] = "RestartingTask"
       THEN /\ running' = restart_running(cur)
            /\ waiting' = restart_waiting(cur)
            /\ iterator' = [iterator EXCEPT ![cur] = generator_call(cur)]
            /\ terminated' = [terminated EXCEPT ![cur] = FALSE]
       ELSE UNCHANGED <<running, waiting, iterator, terminated>>
    /\ pc' = AfterTask
    /\ cur' = 0
    /\ result' = NoResult
    /\ UNCHANGED <<flags, fvars, tvars, mask, snap, idx, woken, call, nops>>
    /\ UNCHANGED first
    /\ stopped' = IF cls[cur] = "RestartingTask"
                  THEN [stopped EXCEPT ![cur] = FALSE] ELSE stopped
    /\ fresh' = IF cls[cur] = "RestartingTask"
                THEN [fresh EXCEPT ![cur] = "added"] ELSE fresh

Next ==
    \/ \E k \in Kinds : run(k[1], k[2])
    \/ \E t \in Tasks : stop(t)
    \/ \E t \in Tasks : restart(t)
    \/ clear
    \/ \E f \in Masks \ {0} : set_flag(f)
    \/ new_flag
    \/ loop
    \/ loop_top
    \/ sleep
    \/ resume
    \/ \E k \in {"yield", "StopIteration", "ExitScheduler", "Exception"},
          m \in Masks : step_end(k, m)
    \/ handle_yield
    \/ handle_stop
    \/ handle_exit
    \/ handle_error
    \/ _abort_on_error

Spec == Init /\ [][Next]_vars

\* ------------------------------------------------------------------ claims
Member(t) == Count(running, t) + Count(waiting, t)

\* C1: every task is at most once in running and waiting together; a task
\* that has not terminated is in exactly one of the lists, exactly once, and
\* a terminated task (completed, stopped, failed without restart) is in neither
C1_ExactlyOneList ==
    \A t \in Created :
        /\ Member(t) <= 1
        /\ terminated[t] => Member(t) = 0
        /\ ~terminated[t] => Member(t) = 1

\* C1 witness: during a pass, after a stop or restart made by a task's step,
\* one task waits and another one is terminated
C1_Witness ==
    /\ pc = "instep"
    /\ call.op \in {"stop", "restart"}
    /\ \E t \in Created, u \in Created :
          Count(waiting, t) = 1 /\ terminated[u] /\ Member(u) = 0

\* bit i of x
Bit(x, i) == (x \div Pow2(i)) % 2

\* the two masks have a bit in common
Meets(a, b) == \E i \in 0..(FlagWidth - 1) : Bit(a, i) = 1 /\ Bit(b, i) = 1

\* C2: when the pending flags are not 0 at the start of a pass, the flag-merge
\* step moves to the tail of running exactly the waiting tasks whose mask has
\* a bit in common with the flags, in the order of waiting; the other waiting
\* tasks stay in waiting in their order, and no mask changes
C2_MergeMovesExactly ==
    [][(pc = "top" /\ flags # 0) =>
          /\ running' = running \o SelectSeq(waiting, LAMBDA t : Meets(flags, mask[t]))
          /\ waiting' = SelectSeq(waiting, LAMBDA t : ~Meets(flags, mask[t]))
          /\ mask' = mask]_vars

\* C2 witness: a flag-merge step has just moved one task and left another,
\* which waits on a flag that was not pending
C2_Witness ==
    /\ pc = "resume" /\ idx = 0
    /\ Len(woken) = 1
    /\ Len(waiting) = 1
    /\ mask[waiting[1]] # 0
    /\ mask[woken[1]] \notin {0, mask[waiting[1]]}

Last(s) == s[Len(s)]
InPass == pc \in {"handle", "hook"}
TheCall(op, arg) == call' = [op |-> op, arg |-> arg]

\* the other tasks keep their place in both lists and their unit of work
SiblingsUntouched(t) ==
    /\ Without(running', t) = Without(running, t)
    /\ Without(waiting', t) = Without(waiting, t)
    /\ \A u \in Tasks \ {t} : iterator'[u] = iterator[u]

\* at the end of a pass, a task whose step always fails has been reported
\* once for each time the pass resumed it, and no task more often than that
ReportedOncePerFailure ==
    pc = "top" =>
        \A t \in Created :
            /\ Count(reported, t) <= Count(snap, t)
            /\ generator[t] = "fail" => Count(reported, t) = Count(snap, t)

\* C3: a failure of a step (not ExitScheduler) does not stop the loop; the
\* failure hook runs exactly once for it; a RestartingTask is then at the
\* tail of running with a new unit of work; the other tasks keep their
\* membership and progress; a task that always fails is reported once per pass
C3_FailureReportedOnce ==
    [][/\ (pc = "handle" /\ result.kind = "Exception") =>
              /\ pc' = "hook" /\ cur' = cur
              /\ reported' = reported
              /\ Member(cur)' = 0
              /\ SiblingsUntouched(cur)
       /\ pc = "hook" =>
              /\ pc' \in {"resume", "top"}
              /\ reported' = Append(reported, cur)
              /\ SiblingsUntouched(cur)
              /\ IF cls[cur] = "RestartingTask"
                 THEN /\ running' # <<>> /\ Last(running') = cur
                      /\ Count(running', cur) = 1 /\ Count(waiting', cur) = 0
                      /\ iterator'[cur] = 0
                 ELSE Member(cur)' = 0
       /\ ReportedOncePerFailure']_vars

\* C3 witness: a pass has ended in which a RestartingTask that always fails
\* was reported once and is runnable again, next to a sibling that waits
C3_Witness ==
    /\ pc = "top"
    /\ \E t \in Created, u \in Created :
          /\ generator[t] = "fail" /\ cls[t] = "RestartingTask"
          /\ Count(reported, t) = 1 /\ Count(running, t) = 1
          /\ u # t /\ Count(waiting, u) = 1 /\ Count(snap, u) = 1

\* C4: when a step raises ExitScheduler the loop is left at once: no hook,
\* no removal or restart of the task, and no task is resumed afterwards
C4_ExitLeavesLoop ==
    [][/\ (pc = "handle" /\ result.kind = "ExitScheduler") =>
              /\ pc' = "exited"
              /\ UNCHANGED <<running, waiting, flags, iterator, mask, reported,
                             terminated, idx, cur>>
       /\ pc = "exited" => UNCHANGED vars]_vars

\* C4 witness: the loop was left by the ExitScheduler of a RestartingTask that
\* is still in running, with a task of the pass not resumed
C4_Witness ==
    /\ pc = "exited"
    /\ cls[cur] = "RestartingTask"
    /\ Count(running, cur) = 1
    /\ idx < Len(snap)

\* C5: the call of new_flag() after FlagWidth flags have been handed out
\* fails: it returns no flag and leaves the scheduler unchanged
C5_CapacityError ==
    [][(call'.op = "new_flag" /\ flag_counter >= FlagWidth) =>
          UNCHANGED <<flag_counter, last_flag, flags, running, waiting>>]_vars

\* C6: stop(t) never fails and leaves t in neither list, whatever list it was
\* in; a second stop(t) changes nothing; the other tasks keep their place and
\* order, the pending flags and the flag counter are unchanged
C6_StopIdempotent ==
    [][\A t \in Tasks : TheCall("stop", t) =>
          /\ pc' = pc
          /\ Member(t)' = 0
          /\ running' = Without(running, t)
          /\ waiting' = Without(waiting, t)
          /\ remove(running', t) = running' /\ remove(waiting', t) = waiting'
          /\ UNCHANGED <<flags, flag_counter>>]_vars

\* C6 witness: a task's step has stopped another task, which is in neither
\* list, while a third party of the claim, a waiting task, is still waiting
C6_Witness ==
    /\ pc = "instep"
    /\ call.op = "stop" /\ call.arg # cur
    /\ Member(call.arg) = 0
    /\ mask[call.arg] # 0
    /\ Count(running, cur) = 1

\* a restart of t has just been made, by a call or by the failure hook
Restarts(t) ==
    \/ TheCall("restart", t)
    \/ pc = "hook" /\ cur = t /\ cls[t] = "RestartingTask"

\* C7: restart(t), in whatever state t is, leaves t out of waiting and once in
\* running, at its tail, as stop(t) followed by a new submission would; the
\* unit of work of t is a new one that has taken no step
C7_RestartIsStopThenSubmit ==
    [][\A t \in Tasks : Restarts(t) =>
          /\ Count(waiting', t) = 0
          /\ Count(running', t) = 1
          /\ running' = Append(Without(running, t), t)
          /\ waiting' = Without(waiting, t)
          /\ iterator'[t] = 0
          /\ \A u \in Tasks \ {t} : iterator'[u] = iterator[u]]_vars

\* C7 witness: a task's step has restarted another task that had parked
\* before; it is at the tail of running with a unit of work at its first step
C7_Witness ==
    /\ pc = "instep"
    /\ call.op = "restart" /\ call.arg # cur
    /\ mask[call.arg] # 0
    /\ iterator[call.arg] = 0
    /\ Len(running) = 2 /\ Last(running) = call.arg

\* C8: no pass resumes a task that is in waiting; a task leaves waiting only
\* when a flag-merge step finds pending flags that meet its mask, or by
\* stop, restart or clear
C8_WaitingNotResumed ==
    [][/\ (pc = "resume" /\ pc' = "instep") => Count(waiting, cur') = 0
       /\ \A t \in Tasks :
            (Count(waiting, t) > 0 /\ Count(waiting', t) < Count(waiting, t)) =>
               \/ pc = "top" /\ Meets(flags, mask[t])
               \/ TheCall("stop", t) \/ TheCall("restart", t) \/ TheCall("clear", 0)
       /\ \A t \in Tasks : pc \in {"instep", "handle", "hook"} /\ Count(waiting, t) > 0
               => cur # t]_vars

\* C8 witness: a task that parked in an earlier pass is still waiting while a
\* later pass, which does not hold it, resumes another task
C8_Witness ==
    /\ pc = "instep"
    /\ \E t \in Created :
          /\ Count(waiting, t) = 1 /\ Count(snap, t) = 0
          /\ iterator[t] >= 1 /\ t # cur

\* C9 as stated: a pass that ends with running empty has invoked the idle
\* hook, also when running became empty in its resume step
C9_IdleAfterEmptyPass ==
    [][(pc \in {"handle", "hook", "sleep"} /\ pc' = "top" /\ running' = <<>>) =>
          pc = "sleep"]_vars

\* C9 amended: the idle hook is invoked in a pass exactly when running is
\* empty after the flag-merge step of that pass, and the resume step is then
\* skipped; a pass whose resume step has run ends without the idle hook
C9_IdleIffEmptyAfterMerge ==
    [][/\ pc = "top" => /\ (pc' = "sleep" <=> running' = <<>>)
                        /\ (pc' = "resume" <=> running' # <<>>)
       /\ pc' = "sleep" => pc \in {"top", "sleep"}
       /\ pc = "sleep" => pc' \in {"top", "sleep"} /\ UNCHANGED <<running, waiting>>]_vars

\* C9 witness: the idle hook runs in a pass that began with running empty,
\* after a task has completed in an earlier pass
C9_Witness ==
    /\ pc = "sleep"
    /\ running = <<>>
    /\ \E t \in Created : terminated[t] /\ iterator[t] >= 1

\* C10: a task whose step always yields 0 is never put in waiting; each pass
\* takes every task of running, resumes them one by one and ends only when
\* all have been resumed; the yield of 0 leaves the task where it is
C10_ZeroMaskStaysRunnable ==
    [][/\ \A t \in Created : generator[t] = "spin" => Count(waiting', t) = 0
       /\ pc = "top" => snap' = running' /\ idx' = 0
       /\ pc = "resume" => pc' = "instep" /\ idx' = idx + 1 /\ cur' = snap[idx + 1]
       /\ (InPass /\ pc' = "top") => idx = Len(snap)
       /\ (pc = "instep" /\ generator[cur] = "spin" /\ pc' = "handle") =>
              result' = [kind |-> "yield", mask |-> 0]
       /\ (pc = "handle" /\ generator[cur] = "spin") =>
              /\ UNCHANGED <<running, waiting, mask, terminated>>
              /\ pc' \in {"resume", "top"}]_vars

\* C10 witness: a task that always yields 0 is resumed again, still in
\* running, in a pass after its first one, while another task waits
C10_Witness ==
    /\ pc = "handle"
    /\ generator[cur] = "spin"
    /\ Count(running, cur) = 1
    /\ Count(reported, cur) = 0
    /\ \E u \in Created : Count(waiting, u) = 1 /\ Count(snap, u) = 0

\* the loop takes the next task of its copy
Resumes(t) == pc = "resume" /\ pc' = "instep" /\ cur' = t

\* C11: run() puts the new task at the tail of running; of two tasks
\* submitted one after the other (task objects are numbered in the order of
\* their run() calls), the later one is not resumed a second time while the
\* earlier one, not removed in between, still waits for its first resume
C11_EarlierResumedFirst ==
    [][/\ \A t \in Tasks : TheCall("run", t) =>
              /\ Count(running, t) = 0 /\ Count(waiting', t) = 0
              /\ running' = Append(running, t)
       /\ \A b \in Tasks : (Resumes(b) /\ first[b] = "done") =>
              \A a \in Tasks : a < b => first[a] # "pending"]_vars

\* C11 witness: the task submitted second, which had parked before, is
\* resumed again; the task submitted first has been resumed and is waiting
C11_Witness ==
    /\ pc = "instep" /\ cur = 2
    /\ mask[2] # 0
    /\ first[1] = "done"
    /\ Count(waiting, 1) = 1

\* x has bit i set and no other bit
SingleBit(x, i) == \A j \in 0..(FlagWidth + 1) : Bit(x, j) = (IF j = i THEN 1 ELSE 0)

\* C12: the k-th call of new_flag() returns the value with bit k-1 alone set,
\* so the values returned are pairwise distinct; each call advances the flag
\* counter by one and touches neither the pending flags nor the task lists
C12_NewFlagSingleBits ==
    [][call'.op = "new_flag" =>
          /\ flag_counter' = flag_counter + 1
          /\ SingleBit(last_flag', flag_counter)
          /\ last_flag' > last_flag
          /\ UNCHANGED <<flags, running, waiting, mask>>]_vars

\* C12 witness: the second call has returned the value 2
C12_Witness ==
    /\ call.op = "new_flag"
    /\ flag_counter = 2
    /\ last_flag = 2

\* every task in waiting has a mask that is not 0
WaitingMasksNonZero == \A t \in Tasks : Count(waiting, t) > 0 => mask[t] # 0

\* C13: every task in waiting has a non-zero mask; a task enters waiting only
\* when its own step has yielded a non-zero mask, and that mask is recorded
C13_WaitingHaveMask ==
    [][/\ WaitingMasksNonZero'
       /\ \A t \in Tasks : Count(waiting', t) > Count(waiting, t) =>
              /\ pc = "handle" /\ cur = t
              /\ result.kind = "yield" /\ result.mask # 0
              /\ mask'[t] = result.mask
              /\ Count(running', t) = Count(running, t) - 1]_vars

\* C13 witness: the task the pass has just dealt with parked on mask 2, after
\* it had parked on another mask before
C13_Witness ==
    /\ pc \in {"resume", "top"}
    /\ idx >= 1
    /\ waiting # <<>> /\ Last(waiting) = snap[idx]
    /\ mask[snap[idx]] = 2
    /\ iterator[snap[idx]] >= 1
    /\ flags = 1

\* C14: set_flag ORs its argument into the pending flags and changes nothing
\* else; only set_flag and the flag-merge step change the pending flags; the
\* pending flags are 0 after every flag-merge step, also when no waiting task
\* was waiting for them, so a task that parks later is not woken by them
C14_FlagsClearedByMerge ==
    [][/\ call'.op = "set_flag" =>
              /\ \A i \in 0..(FlagWidth - 1) :
                    Bit(flags', i) = 1 <=> (Bit(flags, i) = 1 \/ Bit(call'.arg, i) = 1)
              /\ UNCHANGED <<running, waiting, mask, iterator>>
       /\ pc = "top" => flags' = 0
       /\ flags' # flags => (pc = "top" \/ call'.op = "set_flag")
       /\ (pc = "top" /\ \A t \in Range(waiting) : ~Meets(flags, mask[t])) =>
              UNCHANGED <<running, waiting>>]_vars

\* C14 witness: a flag is pending that no waiting task waits for, while a
\* task waits for another flag: the next flag-merge step drops it
C14_Witness ==
    /\ pc = "top"
    /\ flags = 1
    /\ Len(waiting) = 1 /\ mask[waiting[1]] = 2
    /\ running # <<>>

\* C15: when _abort_on_error is invoked the failed task is in neither list;
\* when the hook of a RestartingTask returns the task is once in running, at
\* its tail, and not in waiting; the hook of a Task leaves it in neither list
C15_RemovedBeforeHook ==
    [][/\ pc' = "hook" => Count(running', cur') = 0 /\ Count(waiting', cur') = 0
       /\ pc = "hook" =>
              IF cls[cur] = "RestartingTask"
              THEN /\ running' = Append(running, cur)
                   /\ Count(running', cur) = 1
                   /\ waiting' = waiting /\ Count(waiting', cur) = 0
              ELSE UNCHANGED <<running, waiting>>]_vars

\* C15 witness: the hook of a failed RestartingTask is about to run; the
\* task is in neither list and another task is runnable
C15_Witness ==
    /\ pc = "hook"
    /\ cls[cur] = "RestartingTask" /\ generator[cur] = "free"
    /\ Member(cur) = 0
    /\ running # <<>>

\* C16 as stated: no task that run() or a restart put into running during
\* the resume step is resumed in the same pass
C16_ReaddedResumedLater ==
    [][\A t \in Tasks : Resumes(t) => fresh[t] = "no"]_vars

\* C16: a pass resumes the tasks of the copy of running made after the
\* flag-merge step, in the order of the copy, each once, and ends only when
\* the copy is exhausted; a task submitted during the resume step, or put
\* back by a restart after its turn or from outside the copy, is not resumed
\* in that pass; a task of the copy that restart() puts back before its turn
\* is still resumed in that pass, once
C16_CopyResumedOnce ==
    [][/\ pc = "top" => snap' = running' /\ idx' = 0
       /\ pc # "top" => snap' = snap
       /\ \A t \in Tasks : Count(snap', t) <= 1
       /\ \A t \in Tasks : Resumes(t) =>
              /\ idx' = idx + 1 /\ snap[idx'] = t
              /\ fresh[t] # "added"
       /\ (InPass /\ pc' = "top") => idx = Len(snap)
       /\ idx' # idx => (Resumes(cur') \/ pc = "top")]_vars

\* C16 witness: the second task of the copy is resumed after the first task
\* of the copy has restarted it
C16_Witness ==
    /\ pc = "instep"
    /\ idx = 2 /\ cur = snap[2]
    /\ fresh[cur] = "early"
    /\ iterator[cur] = 1

\* C17: the flag-merge step comes first in a pass and the copy the resume
\* step walks is taken after it: every waiting task whose mask meets the
\* pending flags is in that copy, behind all tasks that were in running
\* before the merge; the tasks of the copy are resumed front to back and the
\* pass goes on to its last task unless the loop is left
C17_WokenResumedSamePass ==
    [][/\ pc = "top" =>
              /\ Len(snap') >= Len(running)
              /\ SubSeq(snap', 1, Len(running)) = running
              /\ \A t \in Range(waiting) : Meets(flags, mask[t]) =>
                     \E i \in (Len(running) + 1)..Len(snap') : snap'[i] = t
       /\ (pc \in {"handle", "hook"} /\ idx < Len(snap)) =>
              pc' \in {"resume", "hook", "exited", "crashed"}
       /\ (pc = "resume" /\ idx < Len(snap)) => Resumes(snap[idx + 1])]_vars

\* C17 witness: the merge of this pass has woken a task and the resume step
\* starts on a copy that holds it behind the task runnable before the merge
C17_Witness ==
    /\ pc = "resume" /\ idx = 0
    /\ Len(snap) = 2 /\ woken = <<snap[2]>>
    /\ mask[snap[2]] = 2
    /\ iterator[snap[1]] = 1

\* C18: every task in running has wait mask 0, the flag-merge step having
\* cleared the mask of each task it moved
C18_RunnableMaskZero ==
    \A t \in Tasks : Count(running, t) > 0 => mask[t] = 0

\* C19: loop() is never left by an internal error, whatever the steps of the
\* tasks call before they yield, complete or fail
C19_LoopNeverAborts ==
    pc # "crashed"

\* C20: the unit of work of a task for which stop() has returned, and
\* which has not been restarted since, is not advanced: the pass does not
\* resume it, also not when the task that stopped it came before it in the
\* same pass
C20_StoppedNotResumed ==
    [][\A t \in Tasks : Resumes(t) => ~stopped[t]]_vars

\* the running step has called restart() on its own task and the task is
\* still in running with the new instance, which has taken no step yet
\* (resume sets the step counter to 1 or more, only run and restart reset it)
SelfRestarted ==
    /\ cur \in Tasks
    /\ iterator[cur] = 0
    /\ Count(running, cur) = 1 /\ Count(waiting, cur) = 0

\* C21: when the step of a task that has restarted itself ends by a yield,
\* by completion or by a failure, the task is in running, not in waiting,
\* with the new instance not yet advanced
C21_SelfRestartStaysRunnable ==
    [][/\ (pc = "handle" /\ SelfRestarted
              /\ result.kind \in {"yield", "StopIteration"}) =>
              /\ Count(running', cur) = 1 /\ Count(waiting', cur) = 0
              /\ iterator'[cur] = 0
       /\ (pc = "hook" /\ iterator[cur] = 0) =>
              /\ Count(running', cur) = 1 /\ Count(waiting', cur) = 0
              /\ iterator'[cur] = 0]_vars
====
